---- MODULE Spec2Model ----
(***************************************************************************)
(* Model of src/bot.py: a Flask webhook that hands Telegram updates to a   *)
(* python-telegram-bot Application running on a background asyncio loop,   *)
(* whose message handler calls the OpenAI Responses API and relays the     *)
(* extracted code back to the chat.                                        *)
(*                                                                         *)
(* Text values are sequences of one-character strings.                     *)
(***************************************************************************)
EXTENDS Integers, Sequences, FiniteSets, TLC

\* ------------------------------------------------------------------------
\* Bounds
\* ------------------------------------------------------------------------
\* Number of tokens an input text of the extractor is built from.
MaxTok == 7
\* Number of webhook requests (one Telegram update each).
NUpd == 2

\* ------------------------------------------------------------------------
\* Characters and text helpers
\* ------------------------------------------------------------------------
\* The backtick character.
BT == "backtick"
NL == "\n"
SP == " "
\* A character of the language-tag class of the opening fence.
TAGC == "a"

FENCE == <<BT, BT, BT>>

\* The language-tag character class of line 73.
TagChar(c) == c = TAGC

\* Whitespace as str.strip() sees it.
IsSpace(c) == c \in {SP, NL}

RECURSIVE LStrip(_)
LStrip(s) ==
  IF s = <<>> THEN <<>>
  ELSE IF IsSpace(Head(s)) THEN LStrip(Tail(s)) ELSE s

RECURSIVE RStrip(_)
RStrip(s) ==
  IF s = <<>> THEN <<>>
  ELSE IF IsSpace(s[Len(s)]) THEN RStrip(SubSeq(s, 1, Len(s) - 1)) ELSE s

\* str.strip()
Strip(s) == RStrip(LStrip(s))

\* ------------------------------------------------------------------------
\* extract_code_block (the regular expression of line 73)
\* ------------------------------------------------------------------------
\* The literal of three backticks matches at position i.
FenceAt(t, i) ==
  /\ i >= 1
  /\ i + 2 <= Len(t)
  /\ t[i] = BT /\ t[i + 1] = BT /\ t[i + 2] = BT

\* The language-tag class is repeated greedily: the first position at or after i that holds
\* no tag character (Len(t) + 1 when the text ends first).
RECURSIVE SkipTag(_, _)
SkipTag(t, i) ==
  IF i <= Len(t) /\ TagChar(t[i]) THEN SkipTag(t, i + 1) ELSE i

\* A plausible slip: a greedy capture group runs to the LAST closing fence.
RECURSIVE LastFenceFrom(_, _, _)
LastFenceFrom(t, j, k) ==
  IF k < j THEN 0
  ELSE IF FenceAt(t, k) THEN k ELSE LastFenceFrom(t, j, k - 1)

FindCloseGreedy(t, j) == LastFenceFrom(t, j, Len(t) - 2)

\* A plausible slip: an optional closing fence captures to the end of
\* an unterminated block.
RECURSIVE FindCloseOrEnd(_, _)
FindCloseOrEnd(t, j) ==
  IF j + 2 > Len(t) THEN Len(t) + 1
  ELSE IF FenceAt(t, j) THEN j ELSE FindCloseOrEnd(t, j + 1)

\* The capture group is lazy: the first position at or after j where the
\* closing fence matches, 0 when there is none.
RECURSIVE FindClose(_, _)
FindClose(t, j) ==
  IF j + 2 > Len(t) THEN 0
  ELSE IF FenceAt(t, j) THEN j ELSE FindClose(t, j + 1)

NoMatch == [found |-> FALSE, group1 |-> <<>>]

\* The pattern anchored at position i.
MatchAt(t, i) ==
  IF ~FenceAt(t, i) THEN NoMatch
  ELSE LET p == SkipTag(t, i + 3)
       IN  IF p > Len(t) \/ t[p] # NL THEN NoMatch
           ELSE LET k == FindClose(t, p + 1)
                IN  IF k = 0 THEN NoMatch
                    ELSE [found |-> TRUE, group1 |-> SubSeq(t, p + 1, k - 1)]

\* re.search: the leftmost position at which the pattern matches.
RECURSIVE re_search(_, _)
re_search(t, i) ==
  IF i > Len(t) THEN NoMatch
  ELSE LET m == MatchAt(t, i)
       IN  IF m.found THEN m ELSE re_search(t, i + 1)

extract_code_block(t) ==
  LET m == re_search(t, 1)
  IN  Strip(IF m.found THEN m.group1 ELSE t)

\* ------------------------------------------------------------------------
\* State
\* ------------------------------------------------------------------------
VARIABLES
  text,            \* extractor run: the input text
  out,             \* extractor run: the value returned
  epc,             \* extractor run: "off", "in" (called) or "ret" (returned)
  mainpc,          \* main thread: "init", "waiting" (line 216) or "serving" (line 257)
  runner,          \* PTBRunner thread: "none", "spawned" or "running" (line 209)
  loop,            \* _loop is set (line 205)
  runner_started,  \* the _runner_started event (line 186)
  app,             \* the Application: "none", "started" or "failed" (lines 191-192)
  ready,           \* coroutines handed to the loop by run_coroutine_threadsafe, FIFO
  update_queue,    \* application.update_queue
  hpc,             \* per update: position of its handling on the loop
  code,            \* per update: the value generate_from_spec returned
  gresp,           \* per update: the service response its generation call drew
  ev,              \* per update: the outbound calls and log records of its handling
  wpc,             \* per request: position of webhook()
  kind,            \* per request: what the POST body holds
  resp,            \* per request: the HTTP response ("none" while running)
  wlog,            \* per request: what webhook() logged
  waited,          \* per request: seconds spent in fut.result(timeout=3)
  futdone,         \* per request: the future of the hand-off is done
  enqOrder,        \* history: updates in the order they entered update_queue
  handledOrder     \* history: updates in the order their handling began

vars == << text, out, epc, mainpc, runner, loop, runner_started, app, ready,
           update_queue, hpc, code, gresp, ev, wpc, kind, resp, wlog, waited,
           futdone, enqOrder, handledOrder >>

extractVars == << text, out, epc >>
startVars == << mainpc, runner, loop, runner_started, app >>
loopVars == << ready, update_queue, hpc, code, gresp, ev, futdone, enqOrder, handledOrder >>
webVars == << wpc, kind, resp, wlog, waited >>

Upd == 1..NUpd

\* fut.result(timeout=3), line 244.
TIMEOUT == 3

\* ------------------------------------------------------------------------
\* generate_from_spec (lines 76-121)
\* ------------------------------------------------------------------------
SampleFenced == FENCE \o <<TAGC, NL, TAGC, NL>> \o FENCE \o <<SP, TAGC>>
SamplePlain == <<SP, TAGC, NL>>

\* What client.responses.create can do: raise, or return a response whose
\* output_text may raise when read, be None or empty (both <<>> here) or hold
\* text, and whose output attribute, when present, may or may not be readable
\* with part.get (lines 111-114).
Responses ==
  { [create_raises |-> TRUE,  read_raises |-> FALSE, output_text |-> <<>>,
     has_output |-> FALSE, parts_raise |-> FALSE, parts |-> <<>>],
    [create_raises |-> FALSE, read_raises |-> TRUE,  output_text |-> <<>>,
     has_output |-> FALSE, parts_raise |-> FALSE, parts |-> <<>>],
    [create_raises |-> FALSE, read_raises |-> FALSE, output_text |-> SampleFenced,
     has_output |-> TRUE,  parts_raise |-> FALSE, parts |-> <<>>],
    [create_raises |-> FALSE, read_raises |-> FALSE, output_text |-> <<>>,
     has_output |-> TRUE,  parts_raise |-> FALSE, parts |-> SamplePlain],
    [create_raises |-> FALSE, read_raises |-> FALSE, output_text |-> <<SP>>,
     has_output |-> TRUE,  parts_raise |-> TRUE,  parts |-> <<>>],
    [create_raises |-> FALSE, read_raises |-> FALSE, output_text |-> <<>>,
     has_output |-> FALSE, parts_raise |-> FALSE, parts |-> <<>>] }

NoResponse ==
  [create_raises |-> FALSE, read_raises |-> FALSE, output_text |-> <<>>,
   has_output |-> FALSE, parts_raise |-> FALSE, parts |-> <<>>]

\* The text of the exception e of line 119.
ExcText(r) == IF r.create_raises THEN "create failed" ELSE "read failed"

\* Line 121: the fixed prefix followed by the text of the exception.
ErrorString(e) == <<"An error occurred while generating the code: ", e>>

\* Lines 106-118, which cannot raise past the inner except of line 116.
ReadResponse(r) ==
  LET text_content == Strip(r.output_text)
      manual == IF text_content = <<>> /\ r.has_output
                THEN IF r.parts_raise THEN text_content ELSE Strip(r.parts)
                ELSE text_content
  IN  IF manual # <<>> THEN extract_code_block(manual) ELSE <<>>

\* A plausible slip: the except of line 119 covers the create call only.
generate_from_spec_narrow(r) ==
  IF r.create_raises
  THEN [raised |-> FALSE, value |-> ErrorString(ExcText(r))]
  ELSE IF r.read_raises
  THEN [raised |-> TRUE, value |-> <<>>]
  ELSE [raised |-> FALSE, value |-> ReadResponse(r)]

\* The outcome of one call: whether it raised to its caller, and its value.
generate_from_spec(r) ==
  IF r.create_raises \/ r.read_raises
  THEN [raised |-> FALSE, value |-> ErrorString(ExcText(r))]
  ELSE [raised |-> FALSE, value |-> ReadResponse(r)]

\* ------------------------------------------------------------------------
\* Control flow of the handlers
\* ------------------------------------------------------------------------
\* A plausible slip: generation started before the acknowledgment is sent.
handle_message_genfirst == <<"gen", "ack", "reply">>

\* The three steps of handle_message, lines 161, 163 and 164.
handle_message_order == <<"ack", "gen", "reply">>

StepIndex(s) == CHOOSE i \in 1..Len(handle_message_order) : handle_message_order[i] = s

\* The step of handle_message that follows step s.
AfterStep(s) ==
  IF StepIndex(s) < Len(handle_message_order)
  THEN handle_message_order[StepIndex(s) + 1]
  ELSE "done"

\* A plausible slip: no try/except around the MarkdownV2 send.
reply_code_unguarded(pc, ok) ==
  IF ok THEN "done" ELSE "error"

\* A plausible slip: a failure of the document upload swallowed in silence.
reply_code_swallow(pc, ok) ==
  IF ok THEN "done"
  ELSE IF pc = "reply" THEN "fallback" ELSE "done"

\* reply_code, lines 129-141: the position after a send at position pc
\* ("reply": the MarkdownV2 send, "fallback": the document upload) that
\* succeeded (ok) or raised.
reply_code(pc, ok) ==
  IF ok THEN "done"
  ELSE IF pc = "reply" THEN "fallback" ELSE "error"

\* A plausible slip: fut.result(timeout=3) outside the try of line 241.
CaughtButTimeout(site) == site # "timeout"

\* webhook's try/except blocks (lines 231-235, 241-246) catch the exception
\* raised at this site.
Caught(site) == site \in {"get_json", "de_json", "handoff", "timeout"}

\* A plausible slip: a new update put at the front of the queue.
queue_put_front(q, u) == <<u>> \o q

\* application.update_queue.put(upd), line 243.
queue_put(q, u) == Append(q, u)

\* ------------------------------------------------------------------------
\* Initial state
\* ------------------------------------------------------------------------
InitMain ==
  /\ mainpc = "init"
  /\ runner = "none"
  /\ loop = FALSE
  /\ runner_started = FALSE
  /\ app = "none"
  /\ ready = <<>>
  /\ update_queue = <<>>
  /\ hpc = [u \in Upd |-> "idle"]
  /\ code = [u \in Upd |-> <<>>]
  /\ gresp = [u \in Upd |-> NoResponse]
  /\ ev = [u \in Upd |-> <<>>]
  /\ wpc = [u \in Upd |-> "idle"]
  /\ kind = [u \in Upd |-> "none"]
  /\ resp = [u \in Upd |-> "none"]
  /\ wlog = [u \in Upd |-> "none"]
  /\ waited = [u \in Upd |-> 0]
  /\ futdone = [u \in Upd |-> FALSE]
  /\ enqOrder = <<>>
  /\ handledOrder = <<>>

Init ==
  /\ text = <<>>
  /\ out = <<>>
  /\ epc = "off"
  /\ InitMain

\* ------------------------------------------------------------------------
\* Start-up (lines 188-216, 253-257)
\* ------------------------------------------------------------------------
\* start_runner_thread up to t.start(): _loop is None, the thread is spawned
\* and the main thread waits on _runner_started.
StartRunnerThread ==
  /\ mainpc = "init"
  /\ ~loop
  /\ runner' = "spawned"
  /\ mainpc' = "waiting"
  /\ UNCHANGED << loop, runner_started, app >>
  /\ UNCHANGED << extractVars, loopVars, webVars >>

\* _runner: the loop is created and published, the start-up task is created
\* and run_forever begins (lines 205-209).
Runner ==
  /\ runner = "spawned"
  /\ loop' = TRUE
  /\ runner' = "running"
  /\ UNCHANGED << mainpc, runner_started, app >>
  /\ UNCHANGED << extractVars, loopVars, webVars >>

\* No task of the loop is inside a blocking call (line 163 blocks the loop).
LoopFree == runner = "running" /\ \A u \in Upd : hpc[u] # "generating"

\* _start_telegram_application: initialize() and start() succeed and the
\* event is set, or one of them raises and the task ends (lines 191-194).
StartApplication(ok) ==
  /\ LoopFree
  /\ app = "none"
  /\ app' = IF ok THEN "started" ELSE "failed"
  /\ runner_started' = ok
  /\ UNCHANGED << mainpc, runner, loop >>
  /\ UNCHANGED << extractVars, loopVars, webVars >>

\* _runner_started.wait(timeout=15) returns because the event is set; Flask
\* starts (lines 216, 257).
WaitReturns ==
  /\ mainpc = "waiting"
  /\ runner_started
  /\ mainpc' = "serving"
  /\ UNCHANGED << runner, loop, runner_started, app >>
  /\ UNCHANGED << extractVars, loopVars, webVars >>

\* _runner_started.wait(timeout=15) returns because the 15 seconds passed;
\* its result is ignored and Flask starts (lines 216, 257).
WaitTimesOut ==
  /\ mainpc = "waiting"
  /\ ~runner_started
  /\ mainpc' = "serving"
  /\ UNCHANGED << runner, loop, runner_started, app >>
  /\ UNCHANGED << extractVars, loopVars, webVars >>

\* ------------------------------------------------------------------------
\* webhook (lines 225-248), on a request thread
\* ------------------------------------------------------------------------
Kinds == {"badjson", "baddeser", "text", "start"}

\* webhook reaches a return "ok" after logging what, or an exception leaves it.
Leave(r, site, what) ==
  /\ wpc' = [wpc EXCEPT ![r] = "ret"]
  /\ resp' = [resp EXCEPT ![r] = IF Caught(site) THEN "ok" ELSE "exception"]
  /\ wlog' = [wlog EXCEPT ![r] = IF Caught(site) THEN what ELSE "none"]

\* Lines 231-239: the body is parsed, then _loop is read. Requests are
\* numbered in their order of arrival.
WebhookReceive(r, k) ==
  /\ mainpc = "serving"
  /\ wpc[r] = "idle"
  /\ \A q \in Upd : q < r => wpc[q] # "idle"
  /\ kind' = [kind EXCEPT ![r] = k]
  /\ IF k = "badjson"
     THEN Leave(r, "get_json", "warning: invalid json")
     ELSE IF ~loop
     THEN /\ wpc' = [wpc EXCEPT ![r] = "ret"]
          /\ resp' = [resp EXCEPT ![r] = "ok"]
          /\ wlog' = [wlog EXCEPT ![r] = "error: loop not running"]
     ELSE /\ wpc' = [wpc EXCEPT ![r] = "try"]
          /\ UNCHANGED << resp, wlog >>
  /\ UNCHANGED << waited, extractVars, startVars, loopVars >>

\* Lines 242-243: Update.de_json raises, or run_coroutine_threadsafe raises,
\* or the put coroutine is handed to the loop.
WebhookHandOff(r, raises) ==
  /\ wpc[r] = "try"
  /\ IF kind[r] = "baddeser"
     THEN /\ Leave(r, "de_json", "error: de_json")
          /\ UNCHANGED ready
     ELSE IF raises
     THEN /\ Leave(r, "handoff", "error: handoff")
          /\ UNCHANGED ready
     ELSE /\ ready' = Append(ready, r)
          /\ wpc' = [wpc EXCEPT ![r] = "wait"]
          /\ UNCHANGED << resp, wlog >>
  /\ UNCHANGED << kind, waited, extractVars, startVars >>
  /\ UNCHANGED << update_queue, hpc, code, gresp, ev, futdone, enqOrder, handledOrder >>

\* A plausible slip: the request waits for the update's handling.
HandOffAcceptedWhenHandled(r) == hpc[r] = "done"

\* What fut.result waits for: the put coroutine has completed (line 244).
HandOffAccepted(r) == futdone[r]

\* Line 244 returns, line 248.
WebhookResult(r) ==
  /\ wpc[r] = "wait"
  /\ HandOffAccepted(r)
  /\ wpc' = [wpc EXCEPT ![r] = "ret"]
  /\ resp' = [resp EXCEPT ![r] = "ok"]
  /\ UNCHANGED << kind, wlog, waited, extractVars, startVars, loopVars >>

\* Line 244 raises TimeoutError after 3 seconds; the future is not cancelled.
WebhookTimeout(r) ==
  /\ wpc[r] = "wait"
  /\ ~HandOffAccepted(r)
  /\ waited[r] = TIMEOUT
  /\ Leave(r, "timeout", "error: timeout")
  /\ UNCHANGED << kind, waited, extractVars, startVars, loopVars >>

\* The put coroutine of r was handed to the loop (line 243 returned).
Scheduled(r) == (\E i \in DOMAIN ready : ready[i] = r) \/ futdone[r]

\* The response is sent and the request is over; its log record, its timer
\* and, unless its update is on its way to the handlers, its body are of no
\* further interest.
WebhookReturn(r) ==
  /\ wpc[r] = "ret"
  /\ wpc' = [wpc EXCEPT ![r] = "done"]
  /\ wlog' = [wlog EXCEPT ![r] = "none"]
  /\ waited' = [waited EXCEPT ![r] = 0]
  /\ kind' = [kind EXCEPT ![r] = IF Scheduled(r) THEN kind[r] ELSE "none"]
  /\ UNCHANGED << resp, extractVars, startVars, loopVars >>

Waiting == {r \in Upd : wpc[r] = "wait" /\ ~HandOffAccepted(r)}

\* One second passes for every request inside fut.result(timeout=3).
Tick ==
  /\ Waiting # {}
  /\ \A r \in Waiting : waited[r] < TIMEOUT
  /\ waited' = [r \in Upd |-> IF r \in Waiting THEN waited[r] + 1 ELSE waited[r]]
  /\ UNCHANGED << wpc, kind, resp, wlog, extractVars, startVars, loopVars >>

\* ------------------------------------------------------------------------
\* The background loop: the put coroutines and the update fetcher
\* ------------------------------------------------------------------------
Handling == {u \in Upd : hpc[u] \notin {"idle", "done"}}

Log(u, es) == ev' = [ev EXCEPT ![u] = ev[u] \o es]

\* The handling of u moves on: to its next step, to the error handler
\* ("error") or to its end ("done": process_update is about to return).
Goto(u, pc) ==
  hpc' = [hpc EXCEPT ![u] = IF pc = "done" THEN "return" ELSE pc]

\* The locals of the handler of u that are still of interest at position pc:
\* the code while reply_code has a send to make.
Keep(u, pc) ==
  /\ code' = [code EXCEPT ![u] = IF pc \in {"reply", "fallback"} THEN code[u] ELSE <<>>]
  /\ gresp' = [gresp EXCEPT ![u] = NoResponse]

\* The coroutine scheduled at line 243 runs: the update enters the queue and
\* the future of the hand-off completes (the wait of line 244, if still on,
\* ends and its timer is of no further interest).
PutTask ==
  /\ LoopFree
  /\ ready # <<>>
  /\ LET u == Head(ready)
     IN  /\ update_queue' = queue_put(update_queue, u)
         /\ futdone' = [futdone EXCEPT ![u] = TRUE]
         /\ enqOrder' = Append(enqOrder, u)
         /\ waited' = [waited EXCEPT ![u] = 0]
  /\ ready' = Tail(ready)
  /\ UNCHANGED << hpc, code, gresp, ev, handledOrder >>
  /\ UNCHANGED << wpc, kind, resp, wlog, extractVars, startVars >>

\* The fetcher started by application.start() (line 192) takes the next
\* update once the previous one is handled, and dispatches it to the handler
\* registered for it (lines 178-179).
Fetch ==
  /\ LoopFree
  /\ app = "started"
  /\ Handling = {}
  /\ update_queue # <<>>
  /\ LET u == Head(update_queue)
     IN  /\ hpc' = [hpc EXCEPT ![u] =
                      IF kind[u] = "start" THEN "start" ELSE handle_message_order[1]]
         /\ handledOrder' = Append(handledOrder, u)
  /\ update_queue' = Tail(update_queue)
  /\ UNCHANGED << ready, code, gresp, ev, futdone, enqOrder >>
  /\ UNCHANGED << extractVars, startVars, webVars >>

\* start, lines 146-153: the welcome reply is sent or raises.
StartCommand(u, ok) ==
  /\ LoopFree
  /\ hpc[u] = "start"
  /\ Log(u, IF ok THEN <<"welcome">> ELSE <<"welcome_fail">>)
  /\ Goto(u, IF ok THEN "done" ELSE "error")
  /\ UNCHANGED << code, gresp >>
  /\ UNCHANGED << ready, update_queue, futdone, enqOrder, handledOrder >>
  /\ UNCHANGED << extractVars, startVars, webVars >>

\* handle_message, line 161: the interim acknowledgment is sent or raises.
SendAck(u, ok) ==
  /\ LoopFree
  /\ hpc[u] = "ack"
  /\ Log(u, IF ok THEN <<"ack">> ELSE <<"ack_fail">>)
  /\ Goto(u, IF ok THEN AfterStep("ack") ELSE "error")
  /\ UNCHANGED << code, gresp >>
  /\ UNCHANGED << ready, update_queue, futdone, enqOrder, handledOrder >>
  /\ UNCHANGED << extractVars, startVars, webVars >>

\* handle_message, line 163: generate_from_spec is called; it does not yield
\* to the loop until it returns.
GenBegin(u) ==
  /\ LoopFree
  /\ hpc[u] = "gen"
  /\ Log(u, <<"gen_call">>)
  /\ hpc' = [hpc EXCEPT ![u] = "generating"]
  /\ UNCHANGED << code, gresp >>
  /\ UNCHANGED << ready, update_queue, futdone, enqOrder, handledOrder >>
  /\ UNCHANGED << extractVars, startVars, webVars >>

\* generate_from_spec returns (or raises) on the response r of the service.
GenEnd(u, r) ==
  /\ hpc[u] = "generating"
  /\ LET g == generate_from_spec(r)
     IN  /\ Log(u, IF g.raised THEN <<"gen_raise">> ELSE <<"gen_return">>)
         /\ hpc' = [hpc EXCEPT ![u] = IF g.raised THEN "error"
                                      ELSE IF AfterStep("gen") = "done" THEN "return"
                                      ELSE AfterStep("gen")]
         /\ code' = [code EXCEPT ![u] = g.value]
         /\ gresp' = [gresp EXCEPT ![u] = r]
  /\ UNCHANGED << ready, update_queue, futdone, enqOrder, handledOrder >>
  /\ UNCHANGED << extractVars, startVars, webVars >>

\* The position of the handler after reply_code leaves its send at pc.
AfterSend(pc, ok) ==
  IF reply_code(pc, ok) = "done" THEN AfterStep("reply") ELSE reply_code(pc, ok)

\* reply_code, lines 130-135: the MarkdownV2 send succeeds, or raises and a
\* warning is logged.
ReplyMarkdown(u, ok) ==
  /\ LoopFree
  /\ hpc[u] = "reply"
  /\ Log(u, IF ok THEN <<"md_ok">> ELSE <<"md_fail">>)
  /\ Goto(u, AfterSend("reply", ok))
  /\ Keep(u, AfterSend("reply", ok))
  /\ UNCHANGED << ready, update_queue, futdone, enqOrder, handledOrder >>
  /\ UNCHANGED << extractVars, startVars, webVars >>

\* reply_code, lines 136-141: the document upload succeeds or raises.
ReplyDocument(u, ok) ==
  /\ LoopFree
  /\ hpc[u] = "fallback"
  /\ Log(u, IF ok THEN <<"doc_ok">> ELSE <<"doc_fail">>)
  /\ Goto(u, AfterSend("fallback", ok))
  /\ Keep(u, AfterSend("fallback", ok))
  /\ UNCHANGED << ready, update_queue, futdone, enqOrder, handledOrder >>
  /\ UNCHANGED << extractVars, startVars, webVars >>

\* error_handler, lines 166-175, called by the Application for an exception
\* that left a handler (line 180): logs it, tries to tell the chat, swallows
\* a failure of that send.
ErrorHandler(u, ok) ==
  /\ LoopFree
  /\ hpc[u] = "error"
  /\ Log(u, <<"error_logged", IF ok THEN "sorry" ELSE "sorry_fail">>)
  /\ Goto(u, "done")
  /\ Keep(u, "done")
  /\ UNCHANGED << ready, update_queue, futdone, enqOrder, handledOrder >>
  /\ UNCHANGED << extractVars, startVars, webVars >>

\* process_update returns to the fetcher: the handling of u is over and its
\* locals and records are of no further interest.
HandlerReturn(u) ==
  /\ LoopFree
  /\ hpc[u] = "return"
  /\ hpc' = [hpc EXCEPT ![u] = "done"]
  /\ code' = [code EXCEPT ![u] = <<>>]
  /\ gresp' = [gresp EXCEPT ![u] = NoResponse]
  /\ ev' = [ev EXCEPT ![u] = <<>>]
  /\ UNCHANGED << ready, update_queue, futdone, enqOrder, handledOrder >>
  /\ UNCHANGED << extractVars, startVars, webVars >>

\* ------------------------------------------------------------------------
\* Specifications
\* ------------------------------------------------------------------------
StartUp ==
  \/ StartRunnerThread
  \/ Runner
  \/ \E ok \in BOOLEAN : StartApplication(ok)
  \/ WaitReturns
  \/ WaitTimesOut

Web ==
  \/ \E r \in Upd, k \in Kinds : WebhookReceive(r, k)
  \/ \E r \in Upd, raises \in BOOLEAN : WebhookHandOff(r, raises)
  \/ \E r \in Upd : WebhookResult(r)
  \/ \E r \in Upd : WebhookTimeout(r)
  \/ \E r \in Upd : WebhookReturn(r)
  \/ Tick

LoopStep ==
  \/ PutTask
  \/ Fetch
  \/ \E u \in Upd, ok \in BOOLEAN : StartCommand(u, ok)
  \/ \E u \in Upd, ok \in BOOLEAN : SendAck(u, ok)
  \/ \E u \in Upd : GenBegin(u)
  \/ \E u \in Upd, r \in Responses : GenEnd(u, r)
  \/ \E u \in Upd, ok \in BOOLEAN : ReplyMarkdown(u, ok)
  \/ \E u \in Upd, ok \in BOOLEAN : ReplyDocument(u, ok)
  \/ \E u \in Upd, ok \in BOOLEAN : ErrorHandler(u, ok)
  \/ \E u \in Upd : HandlerReturn(u)

Next == StartUp \/ Web \/ LoopStep

Spec == Init /\ [][Next]_vars

\* The loop runs what is ready, every call to an outside service returns or
\* raises, the threads are scheduled and time passes.
Fairness ==
  /\ WF_vars(StartRunnerThread)
  /\ WF_vars(Runner)
  /\ WF_vars(\E ok \in BOOLEAN : StartApplication(ok))
  /\ WF_vars(WaitReturns)
  /\ WF_vars(WaitTimesOut)
  /\ WF_vars(LoopStep)
  /\ \A r \in Upd : WF_vars(\E raises \in BOOLEAN : WebhookHandOff(r, raises))
  /\ \A r \in Upd : WF_vars(WebhookResult(r))
  /\ \A r \in Upd : WF_vars(WebhookTimeout(r))
  /\ \A r \in Upd : WF_vars(WebhookReturn(r))

FairSpec == Spec /\ Fairness

\* ------------------------------------------------------------------------
\* The extractor alone, on every text of at most MaxTok tokens
\* ------------------------------------------------------------------------
Tokens == {FENCE, <<BT>>, <<TAGC>>, <<NL>>, <<SP>>}

RECURSIVE Flatten(_)
Flatten(ts) == IF ts = <<>> THEN <<>> ELSE Head(ts) \o Flatten(Tail(ts))

InitExtract ==
  /\ \E n \in 0..MaxTok : \E ts \in [1..n -> Tokens] : text = Flatten(ts)
  /\ out = <<>>
  /\ epc = "in"
  /\ InitMain

CallExtract ==
  /\ epc = "in"
  /\ out' = extract_code_block(text)
  /\ epc' = "ret"
  /\ UNCHANGED << text, startVars, loopVars, webVars >>

NextExtract == CallExtract

SpecExtract == InitExtract /\ [][NextExtract]_vars

\* ========================================================================
\* Properties
\* ========================================================================
Count(e, a) == Cardinality({i \in DOMAIN e : e[i] = a})

Has(e, a) == \E i \in DOMAIN e : e[i] = a

\* Every b in e has an a somewhere before it.
Before(e, a, b) ==
  \A j \in DOMAIN e : e[j] = b => \E i \in 1..(j - 1) : e[i] = a

IsPrefix(p, q) == Len(p) <= Len(q) /\ SubSeq(q, 1, Len(p)) = p

Min(S) == CHOOSE x \in S : \A y \in S : x <= y
Max(S) == CHOOSE x \in S : \A y \in S : x >= y

\* s without its leading and trailing whitespace, stated without recursion.
Trimmed(s) ==
  LET solid == {i \in DOMAIN s : ~IsSpace(s[i])}
  IN  IF solid = {} THEN <<>> ELSE SubSeq(s, Min(solid), Max(solid))

\* The position of the line break that ends an opening fence at i: three
\* backticks, then language-tag characters only, then the line break.
LineBreaks(t, i) ==
  {p \in (i + 3)..Len(t) : t[p] = NL /\ \A q \in (i + 3)..(p - 1) : TagChar(t[q])}

OpeningFences(t) == {i \in DOMAIN t : FenceAt(t, i) /\ LineBreaks(t, i) # {}}

\* The closing fences of the opening fence at i: any three backticks after
\* its line break.
ClosingFences(t, i) ==
  {k \in (Min(LineBreaks(t, i)) + 1)..Len(t) : FenceAt(t, k)}

\* The opening fences of the well-formed blocks of t.
Blocks(t) == {i \in OpeningFences(t) : ClosingFences(t, i) # {}}

\* The interior of the first well-formed block of t.
FirstInterior(t) ==
  LET i == Min(Blocks(t))
  IN  SubSeq(t, Min(LineBreaks(t, i)) + 1, Min(ClosingFences(t, i)) - 1)

\* ------------------------------------------------------------------------
\* C8: on a text that holds a well-formed fenced block, extract_code_block
\* returns exactly the trimmed interior of the first such block, whatever
\* follows its closing fence, later blocks included.
ExtractFirstBlock ==
  (epc = "ret" /\ Blocks(text) # {}) => out = Trimmed(FirstInterior(text))

\* A text with a second block after the first one's closing fence, whose
\* first interior is not empty.
ExtractFirstBlockWitness ==
  /\ epc = "ret"
  /\ Blocks(text) # {}
  /\ \E j \in Blocks(text) :
       j >= Min(ClosingFences(text, Min(Blocks(text)))) + 3
  /\ out # <<>>
  /\ out = Trimmed(FirstInterior(text))

\* ------------------------------------------------------------------------
\* C9: on a text with an opening fence and no closing fence, and on a text
\* with no fence at all, extract_code_block returns the whole text trimmed.
ExtractNoBlock ==
  (/\ epc = "ret"
   /\ \/ \A i \in DOMAIN text : ~FenceAt(text, i)
      \/ (OpeningFences(text) # {} /\ Blocks(text) = {}))
  => out = Trimmed(text)

\* An unterminated block with text inside it and whitespace around it.
ExtractNoBlockWitness ==
  /\ epc = "ret"
  /\ OpeningFences(text) # {}
  /\ Blocks(text) = {}
  /\ Len(text) > Max(LineBreaks(text, Min(OpeningFences(text))))
  /\ out = Trimmed(text)
  /\ out # text

\* ------------------------------------------------------------------------
\* C1: every POST to /webhook ends with the response "ok" and no exception
\* leaves webhook, whether the body is no JSON (a warning is logged), _loop
\* is unset, de_json raises, the hand-off raises or the 3-second wait times
\* out (an error is logged in each of these).
WebhookAlwaysOk ==
  \A r \in Upd :
    /\ resp[r] # "exception"
    /\ wpc[r] \in {"ret", "done"} => resp[r] = "ok"
    /\ (wpc[r] = "ret" /\ kind[r] = "badjson") => wlog[r] = "warning: invalid json"
    /\ (wpc[r] = "ret" /\ kind[r] = "baddeser" /\ ~Scheduled(r)) =>
          wlog[r] \in {"error: loop not running", "error: de_json"}
    /\ (wpc[r] = "ret" /\ ~futdone[r]) => wlog[r] # "none"

\* A request whose wait timed out is about to answer "ok".
WebhookAlwaysOkWitness ==
  \E r \in Upd :
    /\ wpc[r] = "ret"
    /\ wlog[r] = "error: timeout"
    /\ resp[r] = "ok"
    /\ ~futdone[r]

\* ------------------------------------------------------------------------
\* C2 as claimed: whenever the call to the service or the reading of its
\* response raises, generate_from_spec returns a string that describes the
\* error.
IsErrorString(c) ==
  Len(c) = 2 /\ c[1] = "An error occurred while generating the code: "

MarkdownFailureFallsBack ==
  \A u \in Upd :
    LET docs == Count(ev[u], "doc_ok") + Count(ev[u], "doc_fail")
    IN  /\ docs <= Count(ev[u], "md_fail")
        /\ Count(ev[u], "md_fail") <= 1
        /\ (Has(ev[u], "md_fail") /\ hpc[u] # "fallback") => docs = 1
        /\ (Has(ev[u], "md_fail") /\ docs = 0) => hpc[u] = "fallback"
        /\ (Has(ev[u], "md_fail") /\ ~Has(ev[u], "doc_fail")) =>
             (hpc[u] # "error" /\ ~Has(ev[u], "error_logged"))

\* The MarkdownV2 send raised, the upload went through, the handler is over.
MarkdownFailureFallsBackWitness ==
  \E u \in Upd :
    /\ hpc[u] = "return"
    /\ ev[u] = <<"ack", "gen_call", "gen_return", "md_fail", "doc_ok">>

\* ------------------------------------------------------------------------
\* C4: when the MarkdownV2 send and then the document upload fail, the
\* failure is logged, neither send is tried again, and the chat gets no
\* error message but the one of the error handler.
FallbackFailureHandledOnce ==
  \A u \in Upd :
    Has(ev[u], "doc_fail") =>
      /\ Count(ev[u], "doc_fail") = 1
      /\ Count(ev[u], "doc_ok") = 0
      /\ Count(ev[u], "md_fail") = 1
      /\ Count(ev[u], "md_ok") = 0
      /\ hpc[u] \in {"error", "return"}
      /\ hpc[u] = "error" => ~Has(ev[u], "error_logged")
      /\ hpc[u] = "return" =>
           /\ Count(ev[u], "error_logged") = 1
           /\ Count(ev[u], "sorry") + Count(ev[u], "sorry_fail") = 1

\* Both sends failed and the error handler has logged it and told the chat.
FallbackFailureHandledOnceWitness ==
  \E u \in Upd :
    /\ hpc[u] = "return"
    /\ ev[u] = <<"ack", "gen_call", "gen_return", "md_fail", "doc_fail",
                 "error_logged", "sorry">>

\* ------------------------------------------------------------------------
\* C5 as claimed: every text message handled sees the acknowledgment, then
\* exactly one generation call, then the reply.
EveryMessageGeneratesOnce ==
  \A u \in Upd :
    (kind[u] = "text" /\ hpc[u] = "return") =>
      /\ Count(ev[u], "gen_call") = 1
      /\ Has(ev[u], "md_ok") \/ Has(ev[u], "md_fail")

ReplyEvents == {"md_ok", "md_fail", "doc_ok", "doc_fail"}

\* C5 as amended: generation never begins before the acknowledgment send has
\* completed, the reply is never sent before generation has returned and is
\* given its result, generation is called at most once, and exactly once,
\* followed by the reply, when the acknowledgment send succeeds; when that
\* send raises, the message gets neither generation nor reply.
HandleMessageOrder ==
  \A u \in Upd :
    /\ Before(ev[u], "ack", "gen_call")
    /\ Before(ev[u], "gen_call", "gen_return")
    /\ \A x \in ReplyEvents : Before(ev[u], "gen_return", x)
    /\ Count(ev[u], "ack") + Count(ev[u], "ack_fail") <= 1
    /\ Count(ev[u], "gen_call") <= 1
    /\ hpc[u] = "generating" => (Has(ev[u], "ack") /\ ~Has(ev[u], "gen_return"))
    /\ hpc[u] \in {"reply", "fallback"} => Has(ev[u], "gen_return")
    /\ (hpc[u] = "return" /\ Has(ev[u], "ack")) =>
         /\ Count(ev[u], "gen_call") = 1
         /\ Count(ev[u], "gen_return") = 1
         /\ Has(ev[u], "md_ok") \/ Has(ev[u], "md_fail")
    /\ Has(ev[u], "ack_fail") =>
         (~Has(ev[u], "gen_call") /\ \A x \in ReplyEvents : ~Has(ev[u], x))

\* A message acknowledged, generated for and replied to.
HandleMessageOrderWitness ==
  \E u \in Upd :
    /\ kind[u] = "text"
    /\ hpc[u] = "return"
    /\ ev[u] = <<"ack", "gen_call", "gen_return", "md_ok">>

\* ------------------------------------------------------------------------
\* C6 as claimed: the response to a request whose update was handed to the
\* loop is returned after the update has entered the queue.
ResponseAfterEnqueue ==
  \A r \in Upd :
    (wpc[r] \in {"ret", "done"} /\ Scheduled(r)) =>
      \E i \in DOMAIN enqOrder : enqOrder[i] = r

\* C6 as amended: the request thread waits at most 3 seconds, and only for
\* the hand-off: it can return as soon as the update has entered the queue,
\* whatever the state of its handling, and when the 3 seconds pass first it
\* returns with the update not yet in the queue.
HandOffWait ==
  \A r \in Upd :
    /\ waited[r] <= TIMEOUT
    /\ (wpc[r] = "wait" /\ futdone[r]) => ENABLED WebhookResult(r)
    /\ (wpc[r] = "wait" /\ ~futdone[r] /\ waited[r] = TIMEOUT) => ENABLED WebhookTimeout(r)
    /\ (wpc[r] = "wait" /\ ~futdone[r] /\ waited[r] < TIMEOUT) => ~ENABLED WebhookTimeout(r)
    /\ (wpc[r] = "wait" /\ ~futdone[r]) => ~ENABLED WebhookResult(r)
    /\ (wpc[r] = "ret" /\ Scheduled(r)) =>
         \/ futdone[r]
         \/ wlog[r] = "error: timeout" /\ waited[r] = TIMEOUT

\* A response returned with the update in the queue and its handling not begun.
HandOffWaitWitness ==
  \E r \in Upd :
    /\ wpc[r] = "done"
    /\ resp[r] = "ok"
    /\ futdone[r]
    /\ hpc[r] = "idle"
    /\ \E i \in DOMAIN update_queue : update_queue[i] = r

\* ------------------------------------------------------------------------
\* C7: at most one message is inside generate_from_spec at any time, and
\* updates are handled in the order in which they entered the update queue.
OneGenerationFifo ==
  /\ Cardinality({u \in Upd : hpc[u] = "generating"}) <= 1
  /\ Cardinality(Handling) <= 1
  /\ IsPrefix(handledOrder, enqOrder)

\* A second update queued behind one that is inside generate_from_spec.
OneGenerationFifoWitness ==
  \E u \in Upd :
    /\ hpc[u] = "generating"
    /\ update_queue # <<>>
    /\ enqOrder = <<u>> \o update_queue

\* ------------------------------------------------------------------------
\* C10: every update whose put was handed to the loop is eventually handled
\* (given that every generation call and every send returns or raises).
ScheduledEventuallyHandled ==
  \A u \in Upd : Scheduled(u) ~> (hpc[u] = "done")

====
